---- MODULE Spec2Model ----
(***************************************************************************)
(* State-machine model of the epic-generation service: the in-memory task  *)
(* map of main.py, the background pipeline _process_epic, the status query *)
(* epic_status, and the tracker client create_bulk_issues / create_issue   *)
(* of services/jira_service.py.  The language-model endpoint and the issue *)
(* tracker are the environment: their replies are inputs of the actions.   *)
(***************************************************************************)
EXTENDS Integers, Sequences, FiniteSets, TLC

\* Number of generate requests a behaviour may contain.
MaxTasks == 2
\* Longest JSON array the model endpoint may answer with.
MaxItems == 3

TaskIds == 1..MaxTasks

\* Python's None / JSON null where a string is expected.
None == "None"

(***************************************************************************)
(* JSON values.  A field of an object is absent, a string, or a number    *)
(* (standing for every non-string JSON value).                             *)
(***************************************************************************)
Absent == [ty |-> "absent", s |-> ""]
JNum == [ty |-> "number", s |-> "7"]
JStr(s) == [ty |-> "string", s |-> s]

\* An element of an iterable: a JSON object with the three descriptor
\* fields, or a non-object (a number, a dict key, a character).
Obj(s, d, t) == [ty |-> "object", summary |-> s, description |-> d, issue_type |-> t]
NonObj(ty) == [ty |-> ty, summary |-> Absent, description |-> Absent, issue_type |-> Absent]

\* A top-level JSON value: its type and what Python iterates over for it
\* (the elements of a list, the keys of a dict, the characters of a str).
JVal(ty, items) == [ty |-> ty, items |-> items]
Invalid == JVal("invalid", <<>>)

StoryItem == Obj(JStr("Login"), JStr("As a user"), JStr("Story"))
BareItem == Obj(Absent, Absent, Absent)
NumberElem == NonObj("number")

\* Elements the arrays of the pipeline specification are built from.
Elems == {StoryItem, BareItem, NumberElem}

SeqsUpTo(S, n) == UNION {[1..k -> S] : k \in 0..n}

\* Objects whose fields have unusual values, each tried as a one-element array.
OddItems ==
    { Obj(JNum, JStr("As a user"), JStr("Story")),
      Obj(JStr("Login"), JStr("As a user"), JNum),
      Obj(JStr("Login"), JNum, JStr("Bug")),
      Obj(JStr(""), JStr(""), JStr("Sub-task")) }

\* Top-level values that are not arrays.
NonArrays ==
    { Invalid,
      JVal("null", <<>>), JVal("number", <<>>), JVal("boolean", <<>>),
      JVal("string", <<>>), JVal("string", <<NonObj("string"), NonObj("string")>>),
      JVal("object", <<>>), JVal("object", <<NonObj("string")>>) }

(***************************************************************************)
(* The text of a JSON value, as the model endpoint would send it.          *)
(***************************************************************************)
Quote(s) == "\"" \o s \o "\""

RECURSIVE Join(_)
Join(parts) ==
    IF parts = <<>> THEN ""
    ELSE IF Len(parts) = 1 THEN parts[1]
    ELSE parts[1] \o "," \o Join(Tail(parts))

RenderField(name, v) ==
    IF v.ty = "string" THEN Quote(name) \o ":" \o Quote(v.s)
    ELSE Quote(name) \o ":" \o v.s

RenderElem(e) ==
    CASE e.ty = "object" ->
            LET all == << <<"summary", e.summary>>,
                          <<"description", e.description>>,
                          <<"issue_type", e.issue_type>> >>
                present == SelectSeq(all, LAMBDA f : f[2].ty # "absent")
            IN "{" \o Join([i \in 1..Len(present) |->
                              RenderField(present[i][1], present[i][2])]) \o "}"
      [] e.ty = "string" -> "c"
      [] OTHER -> "7"

RenderItems(items) == Join([i \in 1..Len(items) |-> RenderElem(items[i])])

Render(v) ==
    CASE v.ty = "invalid" -> "not json"
      [] v.ty = "null" -> "null"
      [] v.ty = "number" -> "7"
      [] v.ty = "boolean" -> "true"
      [] v.ty = "string" -> Quote(Join([i \in 1..Len(v.items) |-> "c"]))
      [] v.ty = "object" ->
            "{" \o Join([i \in 1..Len(v.items) |-> Quote("k") \o ":7"]) \o "}"
      [] OTHER -> "[" \o RenderItems(v.items) \o "]"

\* A model response: the raw text, the text without surrounding white
\* space, and the value the text denotes.
Text(v, pad) ==
    [raw |-> IF pad THEN " " \o Render(v) \o " " ELSE Render(v),
     stripped |-> Render(v),
     val |-> v]

\* A response that is no JSON text at all: empty, or JSON inside prose.
Prose(raw) == [raw |-> raw, stripped |-> raw, val |-> Invalid]

\* Responses of the pipeline specification: one task, every shape.
PipeTexts ==
    {Prose(""), Prose("Here is the breakdown: []")} \cup
    {Text(JVal("array", a), FALSE) : a \in SeqsUpTo(Elems, MaxItems)}
    \cup {Text(JVal("array", <<o>>), FALSE) : o \in OddItems}
    \cup {Text(v, FALSE) : v \in NonArrays}
    \cup {Text(JVal("array", <<StoryItem>>), TRUE)}

\* Responses of the concurrent specification: a few shapes, many tasks.
CoreTexts ==
    { Text(Invalid, FALSE),
      Text(JVal("array", <<>>), FALSE),
      Text(JVal("array", <<StoryItem>>), FALSE) }

AllTexts == PipeTexts \cup CoreTexts

(***************************************************************************)
(* Python operations the pipeline applies to the response.                 *)
(***************************************************************************)
Exc(type, msg) == [type |-> type, msg |-> msg]

\* str(exc): the message of the exception; httpx timeouts carry none.
str(exc) == exc.msg

JSONDecodeError == Exc("JSONDecodeError", "Expecting value: line 1 column 1 (char 0)")
NoLen(ty) == Exc("TypeError", "object of type '" \o ty \o "' has no len()")
NoAttribute(ty, attr) ==
    Exc("AttributeError", "'" \o ty \o "' object has no attribute '" \o attr \o "'")
NotSubscriptable(ty) == Exc("TypeError", "'" \o ty \o "' object is not subscriptable")
HTTPStatusError == Exc("HTTPStatusError", "Client error '400 Bad Request'")
ReadTimeout == Exc("ReadTimeout", "")
ConnectError == Exc("ConnectError", "All connection attempts failed")

\* Exceptions chat_completion re-raises.
LlmErrors == {HTTPStatusError, ReadTimeout, ConnectError}

\* result.strip()
strip(text) == (CHOOSE x \in AllTexts : x.raw = text).stripped

\* json.loads that answers an empty list for a text it cannot parse.
json_loads_Lenient(s) ==
    LET v == (CHOOSE x \in AllTexts : x.stripped = s).val
    IN IF v.ty = "invalid" THEN JVal("array", <<>>) ELSE v

\* json.loads(s): the value of the text, Invalid standing for JSONDecodeError.
json_loads(s) == (CHOOSE x \in AllTexts : x.stripped = s).val

\* A len() check that also turns an empty value away.
HasLen_NonEmpty(v) == v.ty \in {"array", "object", "string"} /\ v.items # <<>>

\* len(issues_data) is defined for list, dict and str only.
HasLen(v) == v.ty \in {"array", "object", "string"}

\* issue.get(name) with the default left to create_issue's own.
dict_get_OwnDefault(field, default) ==
    IF field.ty = "absent"
    THEN IF default = JStr("Task") THEN JStr("Aufgabe") ELSE default
    ELSE field

\* issue.get(name, default)
dict_get(field, default) == IF field.ty = "absent" THEN default ELSE field

\* Python truthiness of a field value.
Truthy(v) == \/ v.ty = "string" /\ v.s # ""
             \/ v.ty = "number"

\* issue_type.lower()
lower(s) ==
    CASE s = "Sub-task" -> "sub-task"
      [] s = "Story" -> "story"
      [] s = "Task" -> "task"
      [] s = "Bug" -> "bug"
      [] OTHER -> s

\* epic_key.split("-")[0]
project_key(key) ==
    CASE key = "PROJ-1" -> "PROJ"
      [] key = "OPS-7" -> "OPS"
      [] OTHER -> key

(***************************************************************************)
(* State.                                                                  *)
(***************************************************************************)
VARIABLES
    tasks,           \* main.py `tasks`: the dict, in insertion order
    nextId,          \* number of task ids handed out by uuid4
    pc,              \* where each task's _process_epic stands
    epic_key,        \* argument epic_key of each _process_epic
    result,          \* local `result`: the raw model text
    issues_data,     \* local `issues_data`
    idx,             \* position of create_bulk_issues' loop in issues_data
    created_issue,   \* create_issue's local `created_issue`
    created_issues,  \* create_bulk_issues' local `created_issues`
    llm_calls,       \* requests each task sent to the model endpoint
    calls,           \* arguments of each create_issue call of create_bulk_issues
    posts,           \* POST /rest/api/2/issue requests each task sent
    puts,            \* PUT /rest/api/2/issue/{key} requests each task sent
    issued,          \* what the tracker answered to each POST it accepted
    failures,        \* tracker requests that failed: "POST 400", "PUT timeout", ...
    nextIssue,       \* issues the tracker has created so far
    writes,          \* assignments tasks[task_id] = ... each pipeline made
    lastView,        \* what the latest status query returned
    lastHealth       \* what the latest health request returned

vars == <<tasks, nextId, pc, epic_key, result, issues_data, idx, created_issue,
          created_issues, llm_calls, calls, posts, puts, issued, failures,
          nextIssue, writes, lastView, lastHealth>>

\* The body of a 2xx answer to the creating POST.
Body(haskey, key) == [haskey |-> haskey, key |-> key]
NoBody == Body(FALSE, "")

\* The key the tracker gives its n-th issue of a project.
IssueKey(project, n) == project \o "-" \o ToString(100 + n)

\* The local `result` before chat_completion has returned.
Unset == "<unset>"

\* Optional values of a view: <<v>> is v, <<>> is None.
Some(v) == <<v>>
Nothing == <<>>

View(http, key, status, res, created) ==
    [http |-> http, key |-> key, status |-> status, result |-> res,
     created_issues |-> created]
NoView == View(0, "", "", Nothing, Nothing)

\* models.py HealthResponse, with the HTTP status of the answer.
HealthResponse(status, jira, lm_studio) ==
    [http |-> 200, status |-> status, jira |-> jira, lm_studio |-> lm_studio]
NoHealth == [http |-> 0, status |-> "", jira |-> "", lm_studio |-> ""]

Init ==
    /\ tasks = <<>>
    /\ nextId = 0
    /\ pc = [t \in TaskIds |-> "none"]
    /\ epic_key = [t \in TaskIds |-> ""]
    /\ result = [t \in TaskIds |-> Unset]
    /\ issues_data = [t \in TaskIds |-> Invalid]
    /\ idx = [t \in TaskIds |-> 0]
    /\ created_issue = [t \in TaskIds |-> NoBody]
    /\ created_issues = [t \in TaskIds |-> <<>>]
    /\ llm_calls = [t \in TaskIds |-> 0]
    /\ calls = [t \in TaskIds |-> <<>>]
    /\ posts = [t \in TaskIds |-> <<>>]
    /\ puts = [t \in TaskIds |-> <<>>]
    /\ issued = [t \in TaskIds |-> <<>>]
    /\ failures = [t \in TaskIds |-> {}]
    /\ writes = [t \in TaskIds |-> 0]
    /\ nextIssue = 0
    /\ lastView = NoView
    /\ lastHealth = NoHealth

(***************************************************************************)
(* The task map.                                                           *)
(***************************************************************************)
\* A task map keyed by the business key: a write takes the place of the
\* record that has the same key, whatever its task id.
dict_set_ByKey(d, id, entry) ==
    IF \E i \in 1..Len(d) : d[i].entry.key = entry.key
    THEN [i \in 1..Len(d) |->
            IF d[i].entry.key = entry.key THEN [id |-> id, entry |-> entry] ELSE d[i]]
    ELSE Append(d, [id |-> id, entry |-> entry])

\* tasks[task_id] = entry: a new id is appended, a known id keeps its place.
dict_set(d, id, entry) ==
    IF \E i \in 1..Len(d) : d[i].id = id
    THEN [i \in 1..Len(d) |-> IF d[i].id = id THEN [id |-> id, entry |-> entry] ELSE d[i]]
    ELSE Append(d, [id |-> id, entry |-> entry])

\* issue.get("key") of a created issue.
get_key(body) == IF body.haskey THEN body.key ELSE None

\* issue_keys collected in the wrong order.
issue_keys_Reversed(created) ==
    [i \in 1..Len(created) |-> get_key(created[Len(created) + 1 - i])]

\* main.py:97
issue_keys(created) == [i \in 1..Len(created) |-> get_key(created[i])]

\* The completed record with the text json.loads was given, not the raw one.
CompletedEntry_Stripped(key, res, created) ==
    [key |-> key, status |-> "completed", result |-> strip(res),
     created_issues |-> issue_keys(created)]

\* main.py:98-103
CompletedEntry(key, res, created) ==
    [key |-> key, status |-> "completed", result |-> res,
     created_issues |-> issue_keys(created)]

\* main.py:107
FailedEntry(key, exc) == [key |-> key, status |-> "failed", result |-> str(exc)]

\* Fail without its handler: the exception escapes and nothing is stored.
Fail_Escapes(t, exc) ==
    /\ tasks' = tasks
    /\ pc' = [pc EXCEPT ![t] = "done"]
    /\ writes' = writes

\* Fail that stores the failure and lets the pipeline carry on.
Fail_Resumes(t, exc) ==
    /\ tasks' = dict_set(tasks, t, FailedEntry(epic_key[t], exc))
    /\ pc' = pc
    /\ writes' = [writes EXCEPT ![t] = @ + 1]

\* The except branch of _process_epic: the terminal write of a failure.
Fail(t, exc) ==
    /\ tasks' = dict_set(tasks, t, FailedEntry(epic_key[t], exc))
    /\ pc' = [pc EXCEPT ![t] = "done"]
    /\ writes' = [writes EXCEPT ![t] = @ + 1]

\* The end of the try block of _process_epic: the terminal write of a success.
Complete(t, res, created) ==
    /\ tasks' = dict_set(tasks, t, CompletedEntry(epic_key[t], res, created))
    /\ pc' = [pc EXCEPT ![t] = "done"]
    /\ writes' = [writes EXCEPT ![t] = @ + 1]

(***************************************************************************)
(* The status query.                                                       *)
(***************************************************************************)
\* EpicStatusResponse(**entry): result is str | None, created_issues is
\* list[str] | None; a list holding None does not validate (HTTP 500).
EpicStatusResponse(entry) ==
    LET has == "created_issues" \in DOMAIN entry
    IN IF has /\ \E i \in 1..Len(entry.created_issues) : entry.created_issues[i] = None
       THEN View(500, entry.key, "", Nothing, Nothing)
       ELSE View(200, entry.key, entry.status, Some(entry.result),
                 IF has THEN Some(entry.created_issues) ELSE Nothing)

\* epic_status that answers an unknown key with an HTTP error.
epic_status_Raises(d, key) ==
    IF \E i \in 1..Len(d) : d[i].entry.key = key
    THEN EpicStatusResponse(
             d[CHOOSE i \in 1..Len(d) :
                 /\ d[i].entry.key = key
                 /\ \A j \in 1..(i - 1) : d[j].entry.key # key].entry)
    ELSE View(404, key, "", Nothing, Nothing)

\* epic_status that keeps scanning and answers the last entry with the key.
epic_status_Last(d, key) ==
    IF \E i \in 1..Len(d) : d[i].entry.key = key
    THEN EpicStatusResponse(
             d[CHOOSE i \in 1..Len(d) :
                 /\ d[i].entry.key = key
                 /\ \A j \in (i + 1)..Len(d) : d[j].entry.key # key].entry)
    ELSE View(200, key, "not_found", Nothing, Nothing)

\* epic_status: the first entry of the dict, in insertion order, with the key.
epic_status(d, key) ==
    IF \E i \in 1..Len(d) : d[i].entry.key = key
    THEN EpicStatusResponse(
             d[CHOOSE i \in 1..Len(d) :
                 /\ d[i].entry.key = key
                 /\ \A j \in 1..(i - 1) : d[j].entry.key # key].entry)
    ELSE View(200, key, "not_found", Nothing, Nothing)

(***************************************************************************)
(* The pipeline.                                                           *)
(***************************************************************************)
locals == <<result, issues_data, idx, created_issue, created_issues>>
tracker == <<calls, posts, puts, issued, failures, nextIssue>>

\* The arguments create_bulk_issues passes to create_issue for item i
\* (jira_service.py:112-118).
CreateIssueCall(i, project, summary, description, issue_type, parent) ==
    [item |-> i, project_key |-> project, summary |-> summary,
     description |-> description, issue_type |-> issue_type, parent_key |-> parent]

\* The payload of the creating POST (jira_service.py:148-157).
PostRequest(i, project, issue_type, summary) ==
    [item |-> i, project |-> project, issuetype |-> issue_type, summary |-> summary]

\* The payload of the follow-up PUT (jira_service.py:195-216).
PutRequest(i, key, description, link, parent) ==
    [item |-> i, issue |-> key, description |-> description, link |-> link,
     parent |-> parent]

\* generate_epic: a fresh task id, the pipeline scheduled, nothing stored.
Submit(key) ==
    /\ nextId < MaxTasks
    /\ nextId' = nextId + 1
    /\ pc' = [pc EXCEPT ![nextId + 1] = "scheduled"]
    /\ epic_key' = [epic_key EXCEPT ![nextId + 1] = key]
    /\ UNCHANGED <<tasks, locals, llm_calls, tracker, writes, lastView, lastHealth>>

\* _process_epic up to the await of the model call: one request is sent.
Run(t) ==
    /\ pc[t] = "scheduled"
    /\ pc' = [pc EXCEPT ![t] = "llm"]
    /\ llm_calls' = [llm_calls EXCEPT ![t] = @ + 1]
    /\ UNCHANGED <<tasks, nextId, epic_key, locals, tracker, writes, lastView, lastHealth>>

\* create_bulk_issues from iteration i on, up to the next await or the
\* terminal write: the loop ends, or create_issue builds and sends its POST.
BulkStep(t, i, data, res, created) ==
    /\ created_issues' = [created_issues EXCEPT ![t] = created]
    /\ IF i > Len(data.items)
       THEN /\ Complete(t, res, created)
            /\ UNCHANGED <<idx, calls, posts>>
       ELSE LET issue == data.items[i]
                summary == dict_get(issue.summary, JStr(""))
                description == dict_get(issue.description, JStr(""))
                issue_type == dict_get(issue.issue_type, JStr("Task"))
                call == CreateIssueCall(i, project_key(epic_key[t]), summary,
                                        description, issue_type, epic_key[t])
            IN IF issue.ty # "object"
               THEN /\ Fail(t, NoAttribute(issue.ty, "get"))
                    /\ UNCHANGED <<idx, calls, posts>>
               ELSE IF summary.ty # "string"
               THEN /\ Fail(t, NotSubscriptable(summary.ty))
                    /\ calls' = [calls EXCEPT ![t] = Append(@, call)]
                    /\ UNCHANGED <<idx, posts>>
               ELSE /\ calls' = [calls EXCEPT ![t] = Append(@, call)]
                    /\ posts' = [posts EXCEPT ![t] = Append(@,
                            PostRequest(i, project_key(epic_key[t]), issue_type, summary))]
                    /\ idx' = [idx EXCEPT ![t] = i]
                    /\ pc' = [pc EXCEPT ![t] = "post"]
                    /\ UNCHANGED <<tasks, writes>>

\* chat_completion returned `raw`: parse it and start the bulk creation.
LlmReturn(t, raw) ==
    /\ pc[t] = "llm"
    /\ result' = [result EXCEPT ![t] = raw]
    /\ LET data == json_loads(strip(raw))
       IN IF data.ty = "invalid"
          THEN /\ Fail(t, JSONDecodeError)
               /\ UNCHANGED <<issues_data, idx, created_issues, calls, posts>>
          ELSE /\ issues_data' = [issues_data EXCEPT ![t] = data]
               /\ IF ~HasLen(data)
                  THEN /\ Fail(t, NoLen(data.ty))
                       /\ UNCHANGED <<idx, created_issues, calls, posts>>
                  ELSE BulkStep(t, 1, data, raw, <<>>)
    /\ UNCHANGED <<nextId, epic_key, created_issue, llm_calls, puts, issued,
                   failures, nextIssue, lastView, lastHealth>>

\* LlmRaise with the model call tried a second time before giving up.
LlmRaise_Retries(t, exc) ==
    /\ pc[t] = "llm"
    /\ IF llm_calls[t] < 2
       THEN /\ llm_calls' = [llm_calls EXCEPT ![t] = @ + 1]
            /\ UNCHANGED <<tasks, pc, writes>>
       ELSE /\ Fail(t, exc)
            /\ UNCHANGED llm_calls
    /\ UNCHANGED <<nextId, epic_key, locals, tracker, lastView, lastHealth>>

\* chat_completion raised: straight to the except branch.
LlmRaise(t, exc) ==
    /\ pc[t] = "llm"
    /\ Fail(t, exc)
    /\ UNCHANGED <<nextId, epic_key, locals, llm_calls, tracker, lastView, lastHealth>>

\* PostFail with the error logged and the loop carried on (a partial policy).
PostFail_Skips(t, outcome) ==
    /\ pc[t] = "post"
    /\ outcome \in {"400", "timeout"}
    /\ failures' = [failures EXCEPT ![t] = @ \cup {"POST " \o outcome}]
    /\ BulkStep(t, idx[t] + 1, issues_data[t], result[t], created_issues[t])
    /\ UNCHANGED <<nextId, epic_key, result, issues_data, created_issue, llm_calls,
                   puts, issued, nextIssue, lastView, lastHealth>>

\* The tracker refused the creating POST (status >= 400, raise_for_status),
\* or the request timed out.
PostFail(t, outcome) ==
    /\ pc[t] = "post"
    /\ outcome \in {"400", "timeout"}
    /\ Fail(t, IF outcome = "400" THEN HTTPStatusError ELSE ReadTimeout)
    /\ failures' = [failures EXCEPT ![t] = @ \cup {"POST " \o outcome}]
    /\ UNCHANGED <<nextId, epic_key, locals, llm_calls, calls, posts, puts, issued,
                   nextIssue, lastView, lastHealth>>

\* The tracker accepted the creating POST: create_issue goes on to the PUT
\* when the answer has a key and there is a description or a parent.
PostOk(t, haskey) ==
    /\ pc[t] = "post"
    /\ LET i == idx[t]
           issue == issues_data[t].items[i]
           description == dict_get(issue.description, JStr(""))
           issue_type == dict_get(issue.issue_type, JStr("Task"))
           parent_key == epic_key[t]
           body == IF haskey
                   THEN Body(TRUE, IssueKey(project_key(parent_key), nextIssue + 1))
                   ELSE NoBody
           link == IF parent_key = "" THEN "none"
                   ELSE IF lower(issue_type.s) = "sub-task" THEN "parent"
                   ELSE "customfield_10100"
           has_updates == Truthy(description) \/ parent_key # ""
       IN /\ issued' = [issued EXCEPT ![t] = Append(@, get_key(body))]
          /\ nextIssue' = IF haskey THEN nextIssue + 1 ELSE nextIssue
          /\ created_issue' = [created_issue EXCEPT ![t] = body]
          /\ IF haskey /\ parent_key # "" /\ issue_type.ty # "string"
             THEN /\ Fail(t, NoAttribute(issue_type.ty, "lower"))
                  /\ UNCHANGED <<idx, created_issues, calls, posts, puts>>
             ELSE IF haskey /\ has_updates
             THEN /\ puts' = [puts EXCEPT ![t] = Append(@,
                          PutRequest(i, body.key,
                                     IF Truthy(description) THEN description ELSE Absent,
                                     link, parent_key))]
                  /\ pc' = [pc EXCEPT ![t] = "put"]
                  /\ UNCHANGED <<tasks, idx, created_issues, calls, posts, writes>>
             ELSE /\ BulkStep(t, i + 1, issues_data[t], result[t],
                              Append(created_issues[t], body))
                  /\ UNCHANGED puts
    /\ UNCHANGED <<nextId, epic_key, result, issues_data, llm_calls, failures, lastView, lastHealth>>

\* The answer to the follow-up PUT: a status >= 400 is logged and the
\* issue returned all the same; a request that cannot be sent raises.
PutReply(t, outcome) ==
    /\ pc[t] = "put"
    /\ outcome \in {"200", "400", "timeout"}
    /\ failures' = [failures EXCEPT ![t] =
                      IF outcome = "200" THEN @ ELSE @ \cup {"PUT " \o outcome}]
    /\ IF outcome = "timeout"
       THEN /\ Fail(t, ReadTimeout)
            /\ UNCHANGED <<idx, created_issues, calls, posts>>
       ELSE BulkStep(t, idx[t] + 1, issues_data[t], result[t],
                     Append(created_issues[t], created_issue[t]))
    /\ UNCHANGED <<nextId, epic_key, result, issues_data, created_issue, llm_calls,
                   puts, issued, nextIssue, lastView, lastHealth>>

\* GET /api/v1/jira/epic/{key}/status
Query(key) ==
    /\ lastView' = epic_status(tasks, key)
    /\ UNCHANGED <<tasks, nextId, pc, epic_key, locals, llm_calls, tracker, writes,
                   lastHealth>>

\* check_connectivity that takes any HTTP answer for reachable.
jira_check_connectivity_AnyAnswer(probe) == probe # "timeout"

\* jira_service.check_connectivity: True for a 200, False for any other
\* status and for any exception.
jira_check_connectivity(probe) == probe = "200"

\* llm_service.check_connectivity: the same for GET /v1/models.
llm_check_connectivity(probe) == probe = "200"

\* What a reachability probe can meet: a 200, another status, no answer.
Probes == {"200", "401", "timeout"}

\* Probes of the concurrent specification: both services up, or both down.
CoreProbes == {"200", "timeout"}

\* GET /api/v1/health
Health(jira, llm) ==
    /\ LET jira_ok == jira_check_connectivity(jira)
           llm_ok == llm_check_connectivity(llm)
           overall == IF jira_ok /\ llm_ok THEN "healthy" ELSE "degraded"
       IN lastHealth' = HealthResponse(overall,
                            IF jira_ok THEN "connected" ELSE "unreachable",
                            IF llm_ok THEN "connected" ELSE "unreachable")
    /\ UNCHANGED <<tasks, nextId, pc, epic_key, locals, llm_calls, tracker, writes,
                   lastView>>

(***************************************************************************)
(* Specifications.                                                         *)
(***************************************************************************)
EpicKeys == {"PROJ-1", "OPS-7"}
PipeKeys == {"PROJ-1", ""}

\* Concurrent pipelines over a few responses.
Next ==
    \/ \E k \in EpicKeys : Submit(k)
    \/ \E t \in TaskIds : Run(t)
    \/ \E t \in TaskIds : \E x \in CoreTexts : LlmReturn(t, x.raw)
    \/ \E t \in TaskIds : \E e \in LlmErrors : LlmRaise(t, e)
    \/ \E t \in TaskIds : \E o \in {"400", "timeout"} : PostFail(t, o)
    \/ \E t \in TaskIds : \E h \in BOOLEAN : PostOk(t, h)
    \/ \E t \in TaskIds : \E o \in {"200", "400", "timeout"} : PutReply(t, o)
    \/ \E k \in EpicKeys : Query(k)
    \/ \E p \in CoreProbes : Health(p, p)

Spec == Init /\ [][Next]_vars

\* One pipeline over every shape of response.
PipeNext ==
    \/ \E k \in PipeKeys : nextId = 0 /\ Submit(k)
    \/ Run(1)
    \/ \E x \in PipeTexts : LlmReturn(1, x.raw)
    \/ \E e \in LlmErrors : LlmRaise(1, e)
    \/ \E o \in {"400", "timeout"} : PostFail(1, o)
    \/ \E h \in BOOLEAN : PostOk(1, h)
    \/ \E o \in {"200", "400", "timeout"} : PutReply(1, o)
    \/ \E k \in PipeKeys : Query(k)
    \/ \E j, l \in Probes : Health(j, l)

PipeSpec == Init /\ [][PipeNext]_vars

\* Every await of the pipeline returns or raises, and the event loop
\* resumes the pipeline: its next step is taken, whatever the answer.
PipeStep ==
    \/ Run(1)
    \/ \E x \in PipeTexts : LlmReturn(1, x.raw)
    \/ \E e \in LlmErrors : LlmRaise(1, e)
    \/ \E o \in {"400", "timeout"} : PostFail(1, o)
    \/ \E h \in BOOLEAN : PostOk(1, h)
    \/ \E o \in {"200", "400", "timeout"} : PutReply(1, o)

FairPipeSpec == PipeSpec /\ WF_vars(PipeStep)

(***************************************************************************)
(* Properties.                                                             *)
(***************************************************************************)
\* The positions of the task map that hold task id t, and its entry.
Records(t) == {i \in 1..Len(tasks) : tasks[i].id = t}
Entry(t) == tasks[CHOOSE i \in Records(t) : TRUE].entry
Terminal(t) == Records(t) # {} /\ Entry(t).status \in {"completed", "failed"}

\* The pipeline of t was submitted and has not made its terminal write.
InFlight(t) == pc[t] \in {"scheduled", "llm", "post", "put"}

\* The value a model response denotes, read off the table of responses.
Returned(t) == result[t] # Unset
ValueOf(raw) == (CHOOSE x \in AllTexts : x.raw = raw).val
IsObjectArray(v) ==
    v.ty = "array" /\ \A i \in 1..Len(v.items) : v.items[i].ty = "object"

\* C1: from the return of generate until the terminal write, the task map
\* holds exactly one record of the task id, and its status is processing.
C1_ProcessingRecord ==
    \A t \in TaskIds :
        InFlight(t) => /\ Cardinality(Records(t)) = 1
                       /\ Entry(t).status = "processing"

\* C2: under fair scheduling every submitted task eventually has a record
\* whose status is completed or failed.
C2_EventuallyTerminal ==
    \A t \in TaskIds : (pc[t] # "none") ~> Terminal(t)

C2_Witness ==
    \E t \in TaskIds : pc[t] = "done" /\ Terminal(t) /\ llm_calls[t] = 1

\* C3: a task id is written with a terminal status at most once, and a
\* record that is completed or failed never changes again.
C3_OneTerminalWrite ==
    [][\A t \in TaskIds :
          /\ writes'[t] <= 1
          /\ Terminal(t) => /\ (Records(t) # {})'
                            /\ Entry(t)' = Entry(t)]_vars

C3_Witness ==
    \E t, u \in TaskIds :
        /\ t # u
        /\ Terminal(t) /\ writes[t] = 1
        /\ Terminal(u) /\ Entry(u).status # Entry(t).status

\* The tracker answered every request of t with success.
AcceptsAll(t) == failures[t] = {}

\* summary and issue_type of every object are strings where present.
StringFields(v) ==
    \A i \in 1..Len(v.items) :
        /\ v.items[i].summary.ty \in {"absent", "string"}
        /\ v.items[i].issue_type.ty \in {"absent", "string"}

\* One POST per object in array order, and a completed record holding the
\* keys the tracker answered, in that order.
BulkCreated(t) ==
    LET n == Len(ValueOf(result[t]).items)
    IN /\ Len(posts[t]) = n
       /\ \A i \in 1..n : posts[t][i].item = i
       /\ Len(issued[t]) = n
       /\ Records(t) # {}
       /\ Entry(t).status = "completed"
       /\ Entry(t).created_issues = issued[t]

\* C4 as stated: for a response that is a JSON array of N objects and a
\* tracker that accepts every request, N creation requests are issued in
\* array order and the completed record holds the N returned keys in order.
C4_AnyObjects ==
    \A t \in TaskIds :
        (/\ pc[t] = "done"
         /\ Returned(t)
         /\ IsObjectArray(ValueOf(result[t]))
         /\ AcceptsAll(t)) => BulkCreated(t)

\* C4 amended: the same, for arrays of objects whose summary and
\* issue_type, where present, are strings.
C4_BulkCreate ==
    \A t \in TaskIds :
        (/\ pc[t] = "done"
         /\ Returned(t)
         /\ IsObjectArray(ValueOf(result[t]))
         /\ StringFields(ValueOf(result[t]))
         /\ AcceptsAll(t)) => BulkCreated(t)

C4_Witness ==
    \E t \in TaskIds :
        /\ pc[t] = "done" /\ Returned(t) /\ AcceptsAll(t)
        /\ IsObjectArray(ValueOf(result[t]))
        /\ Len(ValueOf(result[t]).items) = MaxItems
        /\ Terminal(t) /\ Entry(t).status = "completed"
        /\ Len(Entry(t).created_issues) = MaxItems
        /\ Entry(t).created_issues[1] # Entry(t).created_issues[MaxItems]

\* The creating POST of an item of t failed.
PostFailed(t) == "POST 400" \in failures[t] \/ "POST timeout" \in failures[t]

\* C5: when the creation of item k fails, the task ends failed, no creation
\* request is issued for the items after k, and the failed record carries
\* no created issue keys although items 1..k-1 were created.
C5_AbortOnFirstError ==
    \A t \in TaskIds :
        PostFailed(t) =>
            LET k == Len(posts[t])
            IN /\ pc[t] = "done"
               /\ Records(t) # {}
               /\ Entry(t).status = "failed"
               /\ "created_issues" \notin DOMAIN Entry(t)
               /\ \A i \in 1..k : posts[t][i].item = i
               /\ Len(issued[t]) = k - 1

C5_Witness ==
    \E t \in TaskIds :
        /\ PostFailed(t)
        /\ Len(issues_data[t].items) = 3
        /\ Len(posts[t]) = 2
        /\ Len(issued[t]) = 1 /\ issued[t][1] # None
        /\ Terminal(t) /\ Entry(t).status = "failed"

\* The positions of the task map whose record has business key k.
WithKey(k) == {i \in 1..Len(tasks) : tasks[i].entry.key = k}

\* The record with key k written last: every task id is written once, so
\* the order of the map is the order of the writes.
LastWritten(k) == tasks[CHOOSE i \in WithKey(k) : \A j \in WithKey(k) : j <= i].entry

\* C6: when several records share a business key, the status query
\* returns the view of the record written most recently among them.
C6_LastWriteWins ==
    [][\A k \in EpicKeys :
          (Query(k) /\ WithKey(k) # {}) =>
              lastView' = EpicStatusResponse(LastWritten(k))]_vars

\* C7: a response that is not a JSON array of objects (invalid JSON, a
\* top-level value that is no array, an array with a non-object element)
\* ends the task failed, never completed.
C7_NonArrayRejected ==
    \A t \in TaskIds :
        (/\ pc[t] = "done"
         /\ Returned(t)
         /\ ~IsObjectArray(ValueOf(result[t])))
        => Records(t) # {} /\ Entry(t).status = "failed"

C9_NotFound ==
    [][\A k \in EpicKeys :
          (Query(k) /\ WithKey(k) = {}) =>
              lastView' = View(200, k, "not_found", Nothing, Nothing)]_vars

C9_Witness ==
    /\ lastView.http = 200 /\ lastView.status = "not_found"
    /\ WithKey(lastView.key) = {}
    /\ tasks # <<>>

\* C10: a response that is not valid JSON ends the task failed with a
\* non-empty result, and no creating request reaches the tracker.
C10_InvalidJson ==
    \A t \in TaskIds :
        (Returned(t) /\ ValueOf(result[t]).ty = "invalid") =>
            /\ pc[t] = "done"
            /\ Records(t) # {}
            /\ Entry(t).status = "failed"
            /\ Entry(t).result # ""
            /\ posts[t] = <<>>

C10_Witness ==
    \E t \in TaskIds :
        /\ result[t] = "not json"
        /\ Terminal(t) /\ Entry(t).status = "failed"
        /\ Entry(t).result = str(JSONDecodeError)
        /\ posts[t] = <<>>

\* C11: the response [] ends the task completed with an empty sequence of
\* created issue keys, and no creating request reaches the tracker.
C11_EmptyArray ==
    \A t \in TaskIds :
        (Returned(t) /\ ValueOf(result[t]) = JVal("array", <<>>)) =>
            /\ pc[t] = "done"
            /\ Records(t) # {}
            /\ Entry(t).status = "completed"
            /\ Entry(t).created_issues = <<>>
            /\ calls[t] = <<>>
            /\ posts[t] = <<>>

C11_Witness ==
    \E t \in TaskIds :
        /\ result[t] = "[]"
        /\ Terminal(t) /\ Entry(t).status = "completed"
        /\ Entry(t).created_issues = <<>>
        /\ posts[t] = <<>>

\* C12: health answers healthy exactly when both reachability checks
\* return true and degraded otherwise; a probe that fails (another status,
\* no answer) yields false and the request is still answered.
C12_Health ==
    [][\A j, l \in Probes :
          Health(j, l) =>
              /\ lastHealth'.http = 200
              /\ lastHealth'.status =
                    IF j = "200" /\ l = "200" THEN "healthy" ELSE "degraded"
              /\ lastHealth'.jira = IF j = "200" THEN "connected" ELSE "unreachable"
              /\ lastHealth'.lm_studio =
                    IF l = "200" THEN "connected" ELSE "unreachable"]_vars

C12_Witness ==
    /\ lastHealth.http = 200
    /\ lastHealth.status = "degraded"
    /\ lastHealth.jira = "connected"
    /\ lastHealth.lm_studio = "unreachable"

\* What create_issue is to be called with for a parsed object: the field
\* where it is present, else the empty string, or Task for the issue type.
Defaulted(field, default) == IF field.ty = "absent" THEN JStr(default) ELSE field

\* C13: for every parsed object the creation call uses issue type Task when
\* the object has no issue_type, the empty string for a missing summary or
\* description, and every field that is present unchanged.
C13_Defaults ==
    \A t \in TaskIds : \A j \in 1..Len(calls[t]) :
        LET call == calls[t][j]
            issue == ValueOf(result[t]).items[call.item]
        IN /\ call.item = j
           /\ call.summary = Defaulted(issue.summary, "")
           /\ call.description = Defaulted(issue.description, "")
           /\ call.issue_type = Defaulted(issue.issue_type, "Task")
           /\ j <= Len(posts[t]) =>
                 /\ posts[t][j].summary = call.summary
                 /\ posts[t][j].issuetype = call.issue_type

C13_Witness ==
    \E t \in TaskIds :
        /\ Len(calls[t]) = 2 /\ Len(posts[t]) = 2
        /\ ValueOf(result[t]).items[1] = BareItem
        /\ ValueOf(result[t]).items[2] = StoryItem
        /\ posts[t][1].issuetype = JStr("Task") /\ posts[t][1].summary = JStr("")
        /\ posts[t][2].issuetype = JStr("Story") /\ posts[t][2].summary = JStr("Login")

\* C14: when the model call fails the task ends failed by the one
\* terminal write, after exactly one request to the model endpoint and
\* without any request to the tracker.
C14_ModelCallFails ==
    \A t \in TaskIds :
        (pc[t] = "done" /\ ~Returned(t)) =>
            /\ Records(t) # {}
            /\ Entry(t).status = "failed"
            /\ writes[t] = 1
            /\ llm_calls[t] = 1
            /\ calls[t] = <<>> /\ posts[t] = <<>> /\ puts[t] = <<>>

C14_Witness ==
    \E t \in TaskIds :
        /\ pc[t] = "done" /\ ~Returned(t)
        /\ Terminal(t) /\ Entry(t).status = "failed"
        /\ Entry(t).result = str(HTTPStatusError)
        /\ llm_calls[t] = 1

\* C15: no creating request reaches the tracker unless the whole response
\* is an array of objects; an array with a later non-object creates nothing.
C15_ParseBeforeCreate ==
    \A t \in TaskIds :
        posts[t] # <<>> => IsObjectArray(ValueOf(result[t]))

\* C16: every status query is answered with a valid view: its status is
\* one of the four, and its created issue keys, when present, are all
\* issue identifiers.
C16_QueryNeverFails ==
    lastView # NoView =>
        /\ lastView.http = 200
        /\ lastView.status \in {"processing", "completed", "failed", "not_found"}
        /\ lastView.created_issues # Nothing =>
              \A i \in 1..Len(lastView.created_issues[1]) :
                  lastView.created_issues[1][i] # None

\* The messages of the exceptions a pipeline can end with.
FailureDescriptions ==
    {str(e) : e \in
        {JSONDecodeError, HTTPStatusError, ReadTimeout, ConnectError,
         NoLen("null"), NoLen("number"), NoLen("boolean"),
         NoAttribute("number", "get"), NoAttribute("string", "get"),
         NoAttribute("number", "lower"), NotSubscriptable("number")}}

C18_Frame ==
    [][/\ Len(tasks') >= Len(tasks)
       /\ \A i \in 1..Len(tasks) : tasks'[i].id = tasks[i].id
       /\ Cardinality({t \in TaskIds : writes'[t] # writes[t]}) <= 1
       /\ \A t \in TaskIds :
             writes'[t] = writes[t] =>
                 /\ Records(t)' = Records(t)
                 /\ Records(t) # {} => Entry(t)' = Entry(t)
       /\ ((\E k \in EpicKeys : Query(k)) \/ (\E p \in CoreProbes : Health(p, p)))
             => tasks' = tasks]_vars

C18_Witness ==
    /\ Len(tasks) = 2
    /\ tasks[1].id # tasks[2].id
    /\ tasks[1].entry.key = tasks[2].entry.key
    /\ tasks[1].entry.status # tasks[2].entry.status
    /\ lastView.http = 200
    /\ lastHealth.http = 200

\* A view that reports a terminal status.
TerminalView(v) == v.http = 200 /\ v.status \in {"completed", "failed"}

\* C19: once the status query of a key answers completed or failed, it
\* answers the same status, result and created issue keys ever after,
\* however many tasks share the key.
C19_StableView ==
    [][\A k \in EpicKeys :
          /\ TerminalView(epic_status(tasks, k)) =>
                epic_status(tasks', k) = epic_status(tasks, k)
          /\ (Query(k) /\ lastView.key = k /\ TerminalView(lastView)) =>
                lastView' = lastView]_vars

C19_Witness ==
    \E k \in EpicKeys :
        /\ Cardinality(WithKey(k)) = 2
        /\ tasks[1].entry.status # tasks[2].entry.status
        /\ TerminalView(lastView)
        /\ lastView = epic_status(tasks, k)

====
